---- MODULE Spec2Model ----
(***************************************************************************)
(* A model of suspense-async-store's createAsyncStore: the entry table,    *)
(* the four cache strategies (reference-counting, lru, ttl, manual), the   *)
(* AbortController of every entry, the promises of the fetchers with the   *)
(* microtasks that deliver their settlement, and the Suspense resources.   *)
(*                                                                         *)
(* JavaScript runs every store operation and every timer callback to       *)
(* completion, so each of them is one action.  A promise reaction (the     *)
(* .catch handler of get, the .then observers of a resource) is a          *)
(* microtask: it runs after its promise settled, possibly after further    *)
(* synchronous store operations, and always before the next timer          *)
(* callback.                                                               *)
(***************************************************************************)
EXTENDS Integers, Sequences, FiniteSets, TLC

VARIABLES
    strategy,       \* the CacheStrategy the store was created with
    cache,          \* Map<string, Entry>: a function on the keys present
    fetches,        \* every promise a fetcher returned, with its key and its signal
    accessCounter,  \* the store-wide counter behind Entry.accessOrder
    cleanupTimer,   \* TRUE while the setInterval timer is installed
    now,            \* Date.now()
    alive,          \* the holder objects not yet garbage collected
    resources,      \* every Resource built by createResourceFromPromise
    microtasks,     \* the queued observers of resources (resource ids), oldest first
    ret             \* what the step just taken returned, threw or delivered

vars == <<strategy, cache, fetches, accessCounter, cleanupTimer, now, alive,
          resources, microtasks, ret>>

(***************************************************************************)
(* Bounds of the model.                                                    *)
(***************************************************************************)
MaxFetches == 3
MaxAccess == 3
MaxTime == 2
MaxRefs == 2
MaxResources == 1

(***************************************************************************)
(* Inputs.                                                                 *)
(***************************************************************************)
StrKey(s) == [str |-> s]
ArrKey(q) == [arr |-> q]
StrElem(s) == [s |-> s]
NumElem(n) == [n |-> n]
NullElem == [null |-> TRUE]
UndefinedElem == [undefined |-> TRUE]

\* The keys the callers use: strings and arrays.
Keys ==
    { StrKey("a"),
      ArrKey(<<StrElem("a")>>),
      StrKey("[\"a\"]") }

Holders == {"h1"}

\* What the call fetcher({signal}) does: return a promise, or throw.
FetcherModes == {"returns", "throws"}

\* The configurations the store is created with (times in model units).
Strategies ==
    { [type |-> "reference-counting", gracePeriod |-> 1],
      [type |-> "lru", maxSize |-> 1],
      [type |-> "ttl", ttl |-> 1],
      [type |-> "manual"] }

\* The values a fetcher's promise rejects with.
AbortErrorDOM == [isDOMException |-> TRUE, name |-> "AbortError", isObject |-> TRUE, code |-> "none"]
AxiosCancel == [isDOMException |-> FALSE, name |-> "none", isObject |-> TRUE, code |-> "ERR_CANCELED"]
NetworkError == [isDOMException |-> FALSE, name |-> "Error", isObject |-> TRUE, code |-> "none"]
NoError == [isDOMException |-> FALSE, name |-> "none", isObject |-> FALSE, code |-> "none"]
Errors == {AbortErrorDOM, AxiosCancel, NetworkError}

(***************************************************************************)
(* Pure helpers.                                                           *)
(***************************************************************************)
\* JSON.stringify of one array element: a string (of letters and digits, so
\* that nothing is escaped) in quotes, a number in digits, and null for null
\* and for undefined alike.
jsonElem(e) ==
    IF "s" \in DOMAIN e THEN "\"" \o e.s \o "\""
    ELSE IF "n" \in DOMAIN e THEN ToString(e.n)
    ELSE "null"

RECURSIVE jsonElems(_)
jsonElems(q) ==
    IF Len(q) = 0 THEN ""
    ELSE IF Len(q) = 1 THEN jsonElem(q[1])
    ELSE jsonElem(q[1]) \o "," \o jsonElems(Tail(q))

\* JSON.stringify of an array of scalars.
jsonStringify(q) == "[" \o jsonElems(q) \o "]"

keyToString(key) ==
    IF "str" \in DOMAIN key THEN key.str ELSE jsonStringify(key.arr)

\* isAbortError without its second test (the axios form).
isAbortErrorNativeOnly(err) == err.isDOMException /\ err.name = "AbortError"

isAbortError(err) ==
    \/ err.isDOMException /\ err.name = "AbortError"
    \/ err.isObject /\ err.code = "ERR_CANCELED"

\* A delete that empties the table whenever it removes a key.
DeleteEverything(c, ks) == [k \in (IF ks \cap DOMAIN c = {} THEN DOMAIN c ELSE {}) |-> c[k]]

\* The table without the keys ks (cache.delete).
Delete(c, ks) == [k \in DOMAIN c \ ks |-> c[k]]

\* The table with key k bound to entry e (cache.set).
Put(c, k, e) == [x \in DOMAIN c \cup {k} |-> IF x = k THEN e ELSE c[x]]

\* An abort that fires no signal.
AbortNothing(F, ids) == F

\* controller.abort() on the controllers of the fetches ids.
Abort(F, ids) ==
    [i \in DOMAIN F |-> IF i \in ids THEN [F[i] EXCEPT !.aborted = TRUE] ELSE F[i]]

\* The fetches whose entries sit under the keys ks of table c.
PromisesOf(c, ks) == {c[k].promise : k \in ks \cap DOMAIN c}

\* A settled promise that no entry holds can no longer act on the store (its
\* reaction has run): the model forgets the key and the value of such a
\* promise and keeps its state and its signal.
Forget(F, c) ==
    [i \in DOMAIN F |->
        IF F[i].state # "pending" /\ ~\E k \in DOMAIN c : c[k].promise = i
        THEN [F[i] EXCEPT !.key = "", !.error = NoError]
        ELSE F[i]]

NoRefs == [h \in Holders |-> 0]

RECURSIVE SumRefs(_, _)
SumRefs(refs, hs) ==
    IF hs = {} THEN 0
    ELSE LET h == CHOOSE x \in hs : TRUE
         IN refs[h] + SumRefs(refs, hs \ {h})

\* entry.references.size
RefsSize(refs) == SumRefs(refs, Holders)

\* What a step leaves in ret: the promise or resource a call returned, or that
\* it threw, with whether the call invoked its fetcher; Void after a call that
\* returns nothing and after a step that is no call.
Returned(kind, id, invoked) == [kind |-> kind, id |-> id, invoked |-> invoked]
Void == Returned("void", 0, FALSE)

Init ==
    /\ strategy \in Strategies
    /\ cache = Delete(<<>>, {})
    /\ fetches = <<>>
    /\ accessCounter = 0
    /\ cleanupTimer = (strategy.type \in {"reference-counting", "ttl"})
    /\ now = 0
    /\ alive = Holders
    /\ resources = <<>>
    /\ microtasks = <<>>
    /\ ret = Void

(***************************************************************************)
(* get and getResource.                                                    *)
(***************************************************************************)
\* A TTL check that finds every entry expired, under every strategy.
isExpiredAlways(e, t) == TRUE

\* A TTL check that never finds an entry expired.
isExpiredNever(e, t) == FALSE

\* get's TTL check on the entry e found at time t.
isExpired(e, t) ==
    strategy.type = "ttl" /\ t - e.createdAt > strategy.ttl

\* An evictIfNeeded that evicts the oldest entry under every strategy.
evictAlways(c) ==
    IF DOMAIN c # {}
    THEN {CHOOSE k \in DOMAIN c : \A o \in DOMAIN c : c[k].accessOrder <= c[o].accessOrder}
    ELSE {}

\* An evictIfNeeded that evicts nothing.
evictNothing(c) == {}

\* evictIfNeeded: the keys it removes from table c (none, or the one entry
\* with the smallest accessOrder; entries never share an accessOrder).
evictIfNeeded(c) ==
    IF strategy.type = "lru" /\ Cardinality(DOMAIN c) >= strategy.maxSize /\ DOMAIN c # {}
    THEN {CHOOSE k \in DOMAIN c : \A o \in DOMAIN c : c[k].accessOrder <= c[o].accessOrder}
    ELSE {}

\* The promise a fetcher returned when called for key k, with its signal.
NewFetch(k) ==
    [key |-> k, aborted |-> FALSE, state |-> "pending", error |-> NoError]

\* A new entry that starts with a reference of every holder.
NewEntryReferenced(id, t, order) ==
    [promise |-> id, references |-> [h \in Holders |-> 1], createdAt |-> t,
     lastAccessed |-> t, accessOrder |-> order]

NewEntry(id, t, order) ==
    [promise |-> id, references |-> NoRefs, createdAt |-> t,
     lastAccessed |-> t, accessOrder |-> order]

\* A hit branch that also renews createdAt.
TouchRenewing(e, t, order) ==
    [e EXCEPT !.lastAccessed = t, !.accessOrder = order, !.createdAt = t]

\* A hit branch that leaves accessOrder as it was.
TouchKeepingOrder(e, t, order) == [e EXCEPT !.lastAccessed = t]

\* The hit branch of get: the entry with its bookkeeping updated.
Touch(e, t, order) ==
    [e EXCEPT !.lastAccessed = t, !.accessOrder = order]

\* get(key, fetcher), with mode saying what the fetcher passed in does when
\* called: the table, the fetches and the counter the call leaves, and what
\* it returns.  The store keeps no fetcher: the one invoked is the caller's.
GetResult(key, mode) ==
    LET k == keyToString(key)
        expired == k \in DOMAIN cache /\ isExpired(cache[k], now)
        cache1 == IF expired THEN Delete(cache, {k}) ELSE cache
        fetches1 == IF expired THEN Abort(fetches, {cache[k].promise}) ELSE fetches
    IN  IF k \in DOMAIN cache1
        THEN [cache |-> [cache1 EXCEPT ![k] = Touch(cache1[k], now, accessCounter + 1)],
              fetches |-> fetches1,
              accessCounter |-> accessCounter + 1,
              ret |-> Returned("promise", cache1[k].promise, FALSE)]
        ELSE LET victims == evictIfNeeded(cache1)
                 cache2 == Delete(cache1, victims)
                 fetches2 == Abort(fetches1, PromisesOf(cache1, victims))
                 id == Len(fetches) + 1
             IN  IF mode = "throws"
                 THEN [cache |-> cache2,
                       fetches |-> fetches2,
                       accessCounter |-> accessCounter,
                       ret |-> Returned("throw", 0, TRUE)]
                 ELSE [cache |-> Put(cache2, k, NewEntry(id, now, accessCounter + 1)),
                       fetches |-> Append(fetches2, NewFetch(k)),
                       accessCounter |-> accessCounter + 1,
                       ret |-> Returned("promise", id, TRUE)]

\* The calls the bounds of the model admit.
GetAdmitted(r) ==
    /\ accessCounter < MaxAccess
    /\ r.ret.kind = "promise" /\ r.ret.invoked => Len(fetches) < MaxFetches

get(key, mode) ==
    LET r == GetResult(key, mode)
    IN  /\ GetAdmitted(r)
        /\ cache' = r.cache
        /\ fetches' = Forget(r.fetches, r.cache)
        /\ accessCounter' = r.accessCounter
        /\ ret' = r.ret
        /\ UNCHANGED <<strategy, cleanupTimer, now, alive, resources, microtasks>>

\* createResourceFromPromise(promise): promise.then(...) on a promise that has
\* already settled queues the observer at once.
getResource(key, mode) ==
    LET r == GetResult(key, mode)
        id == Len(resources) + 1
    IN  /\ GetAdmitted(r)
        /\ Len(resources) < MaxResources
        /\ cache' = r.cache
        /\ fetches' = Forget(r.fetches, r.cache)
        /\ accessCounter' = r.accessCounter
        /\ IF r.ret.kind = "throw"
           THEN /\ ret' = r.ret
                /\ UNCHANGED <<resources, microtasks>>
           ELSE /\ resources' = Append(resources, [promise |-> r.ret.id, status |-> "pending"])
                /\ microtasks' =
                       IF r.fetches[r.ret.id].state # "pending"
                       THEN Append(microtasks, id)
                       ELSE microtasks
                /\ ret' = Returned("resource", id, r.ret.invoked)
        /\ UNCHANGED <<strategy, cleanupTimer, now, alive>>

\* resource.read(): what the Resource id does when read in the current state.
read(id) ==
    IF resources[id].status = "pending" THEN [kind |-> "throws suspender", id |-> id]
    ELSE IF resources[id].status = "error"
         THEN [kind |-> "throws error", id |-> resources[id].promise]
         ELSE [kind |-> "returns value", id |-> resources[id].promise]

(***************************************************************************)
(* invalidate, clear, dispose.                                             *)
(***************************************************************************)
invalidate(key) ==
    LET k == keyToString(key)
    IN  /\ IF k \in DOMAIN cache
           THEN /\ fetches' = Forget(Abort(fetches, {cache[k].promise}), Delete(cache, {k}))
                /\ cache' = Delete(cache, {k})
           ELSE UNCHANGED <<cache, fetches>>
        /\ ret' = Void
        /\ UNCHANGED <<strategy, accessCounter, cleanupTimer, now, alive,
                       resources, microtasks>>

\* A clear that aborts no entry.
ClearAbortsNone(c) == {}

\* The fetches clear() aborts.
ClearAborts(c) == PromisesOf(c, DOMAIN c)

clear ==
    /\ fetches' = Forget(Abort(fetches, ClearAborts(cache)), Delete(cache, DOMAIN cache))
    /\ cache' = Delete(cache, DOMAIN cache)
    /\ ret' = Void
    /\ UNCHANGED <<strategy, accessCounter, cleanupTimer, now, alive,
                   resources, microtasks>>

\* A dispose that installs a timer when it finds none.
disposeTogglingTimer ==
    /\ cleanupTimer' = ~cleanupTimer
    /\ fetches' = Forget(Abort(fetches, PromisesOf(cache, DOMAIN cache)), Delete(cache, DOMAIN cache))
    /\ cache' = Delete(cache, DOMAIN cache)
    /\ ret' = Void
    /\ UNCHANGED <<strategy, accessCounter, now, alive, resources, microtasks>>

\* A dispose that stops the timer and keeps the entries.
disposeKeepingEntries ==
    /\ cleanupTimer' = FALSE
    /\ ret' = Void
    /\ UNCHANGED <<strategy, cache, fetches, accessCounter, now, alive,
                   resources, microtasks>>

dispose ==
    /\ cleanupTimer' = FALSE
    /\ fetches' = Forget(Abort(fetches, ClearAborts(cache)), Delete(cache, DOMAIN cache))
    /\ cache' = Delete(cache, DOMAIN cache)
    /\ ret' = Void
    /\ UNCHANGED <<strategy, accessCounter, now, alive, resources, microtasks>>

(***************************************************************************)
(* addReference, removeReference.                                          *)
(***************************************************************************)
\* A registry created under every strategy.
HasRegistryAlways == TRUE

\* registry is non-null exactly under the reference-counting strategy.
HasRegistry == strategy.type = "reference-counting"

\* Every addReference adds a fresh WeakRef, also for a holder already there.
addReference(key, ref) ==
    LET k == keyToString(key)
    IN  /\ ref \in alive
        /\ IF k \in DOMAIN cache /\ HasRegistry
           THEN /\ RefsSize(cache[k].references) < MaxRefs
                /\ cache' = [cache EXCEPT ![k].references[ref] = @ + 1]
           ELSE UNCHANGED cache
        /\ ret' = Void
        /\ UNCHANGED <<strategy, fetches, accessCounter, cleanupTimer, now, alive,
                       resources, microtasks>>

\* removeReference deletes the first WeakRef of the holder and stops.
removeReference(key, ref) ==
    LET k == keyToString(key)
    IN  /\ ref \in alive
        /\ IF k \in DOMAIN cache /\ HasRegistry /\ cache[k].references[ref] > 0
           THEN cache' = [cache EXCEPT ![k].references[ref] = @ - 1]
           ELSE UNCHANGED cache
        /\ ret' = Void
        /\ UNCHANGED <<strategy, fetches, accessCounter, cleanupTimer, now, alive,
                       resources, microtasks>>

(***************************************************************************)
(* The cleanup timers.                                                     *)
(***************************************************************************)
\* A pruning that finds every holder collected.
LiveRefsNone(refs) == NoRefs

\* The references of live holders (ref.deref() !== undefined).
LiveRefs(refs) == [h \in Holders |-> IF h \in alive THEN refs[h] ELSE 0]

\* A sweep test without the grace period.
RefSweepEvictsUnreferenced(e, t) == RefsSize(e.references) = 0

\* A sweep test that spares the entries whose computation is pending.
RefSweepEvictsSettled(e, t) ==
    /\ fetches[e.promise].state # "pending"
    /\ RefsSize(e.references) = 0
    /\ t - e.lastAccessed > strategy.gracePeriod

\* A sweep test that never evicts.
RefSweepEvictsNever(e, t) == FALSE

\* The reference-counting sweep's test on an entry whose references were pruned.
RefSweepEvicts(e, t) ==
    RefsSize(e.references) = 0 /\ t - e.lastAccessed > strategy.gracePeriod

\* A TTL sweep test that evicts an entry as soon as its age reaches ttl.
TtlSweepEvictsAtTtl(e, t) == t - e.createdAt >= strategy.ttl

\* A TTL sweep test that never evicts.
TtlSweepEvictsNever(e, t) == FALSE

\* The TTL sweep's test on an entry.
TtlSweepEvicts(e, t) == t - e.createdAt > strategy.ttl

refCountingSweep ==
    LET pruned == [k \in DOMAIN cache |->
                      [cache[k] EXCEPT !.references = LiveRefs(cache[k].references)]]
        evicted == {k \in DOMAIN cache : RefSweepEvicts(pruned[k], now)}
    IN  /\ strategy.type = "reference-counting"
        /\ cleanupTimer
        /\ microtasks = <<>>
        /\ fetches' = Forget(Abort(fetches, PromisesOf(cache, evicted)), Delete(pruned, evicted))
        /\ cache' = Delete(pruned, evicted)
        /\ ret' = Void
        /\ UNCHANGED <<strategy, accessCounter, cleanupTimer, now, alive,
                       resources, microtasks>>

\* A TTL sweep that runs whether or not the timer is installed.
ttlSweepUntimed ==
    LET evicted == {k \in DOMAIN cache : TtlSweepEvicts(cache[k], now)}
    IN  /\ strategy.type = "ttl"
        /\ microtasks = <<>>
        /\ fetches' = Forget(Abort(fetches, PromisesOf(cache, evicted)), Delete(cache, evicted))
        /\ cache' = Delete(cache, evicted)
        /\ ret' = Void
        /\ UNCHANGED <<strategy, accessCounter, cleanupTimer, now, alive,
                       resources, microtasks>>

ttlSweep ==
    LET evicted == {k \in DOMAIN cache : TtlSweepEvicts(cache[k], now)}
    IN  /\ strategy.type = "ttl"
        /\ cleanupTimer
        /\ microtasks = <<>>
        /\ fetches' = Forget(Abort(fetches, PromisesOf(cache, evicted)), Delete(cache, evicted))
        /\ cache' = Delete(cache, evicted)
        /\ ret' = Void
        /\ UNCHANGED <<strategy, accessCounter, cleanupTimer, now, alive,
                       resources, microtasks>>

(***************************************************************************)
(* Promises: settlement and the reactions it runs.                         *)
(***************************************************************************)
\* A .catch handler that deletes the key on every rejection.
CatchDeletesAlways(k, err) == {k}

\* The keys the .catch handler of get deletes when its fetch rejects with err.
CatchDeletes(k, err) == IF isAbortError(err) THEN {k} ELSE {}

\* The observers of the entry promise of fetch id, in the order they were attached.
RECURSIVE ThenJobs(_, _)
ThenJobs(id, i) ==
    IF i > Len(resources) THEN <<>>
    ELSE (IF resources[i].promise = id THEN <<i>> ELSE <<>>) \o ThenJobs(id, i + 1)

\* The reaction of fetcher(...).catch(...) to the settlement of the fetcher's
\* promise of fetch id: a fulfilment (err = NoError) passes through, a rejection
\* runs the handler and is rethrown; either way the entry's promise settles and
\* its observers are queued.  The store reads no promise state, so the moment
\* the fetcher's promise settled is not observable and the step stands for
\* both.  The signal is advisory: a fetcher may settle either way, aborted or
\* not.
settle(id, err) ==
    /\ fetches[id].state = "pending"
    /\ LET after == IF err = NoError THEN cache
                     ELSE Delete(cache, CatchDeletes(fetches[id].key, err))
       IN  /\ cache' = after
           /\ fetches' = Forget([fetches EXCEPT
                                    ![id].state = IF err = NoError THEN "fulfilled" ELSE "rejected",
                                    ![id].error = err], after)
    /\ microtasks' = microtasks \o ThenJobs(id, 1)
    /\ ret' = Void
    /\ UNCHANGED <<strategy, accessCounter, cleanupTimer, now, alive, resources>>

\* Observers that run and leave the status as it is.
thenReactionKeepingStatus ==
    /\ microtasks # <<>>
    /\ microtasks' = Tail(microtasks)
    /\ ret' = Void
    /\ UNCHANGED <<strategy, cache, fetches, accessCounter, cleanupTimer, now, alive,
                   resources>>

\* The observers createResourceFromPromise attached with promise.then.
thenReaction ==
    /\ microtasks # <<>>
    /\ LET id == Head(microtasks)
           p == fetches[resources[id].promise].state
       IN  resources' = [resources EXCEPT
                            ![id].status = IF p = "fulfilled" THEN "success" ELSE "error"]
    /\ microtasks' = Tail(microtasks)
    /\ ret' = Void
    /\ UNCHANGED <<strategy, cache, fetches, accessCounter, cleanupTimer, now, alive>>

(***************************************************************************)
(* The environment: the clock and the garbage collector.                   *)
(***************************************************************************)
Tick ==
    /\ now < MaxTime
    /\ now' = now + 1
    /\ ret' = Void
    /\ UNCHANGED <<strategy, cache, fetches, accessCounter, cleanupTimer, alive,
                   resources, microtasks>>

\* A holder is observed only through the WeakRefs of a store with a registry.
Collect(h) ==
    /\ HasRegistry
    /\ h \in alive
    /\ alive' = alive \ {h}
    /\ ret' = Void
    /\ UNCHANGED <<strategy, cache, fetches, accessCounter, cleanupTimer, now,
                   resources, microtasks>>

\* The store under every strategy, without holders and resources.
Next ==
    \/ \E key \in Keys, mode \in FetcherModes : get(key, mode)
    \/ \E key \in Keys : invalidate(key)
    \/ clear
    \/ dispose
    \/ refCountingSweep
    \/ ttlSweep
    \/ \E id \in DOMAIN fetches, err \in Errors \cup {NoError} : settle(id, err)
    \/ Tick

Spec == Init /\ [][Next]_vars

TypeOK ==
    /\ strategy \in Strategies
    /\ DOMAIN cache \subseteq {keyToString(key) : key \in Keys}
    /\ \A k \in DOMAIN cache : cache[k].promise \in DOMAIN fetches
    /\ accessCounter \in 0..MaxAccess
    /\ now \in 0..MaxTime
    /\ Len(fetches) <= MaxFetches
    /\ Len(resources) <= MaxResources

(***************************************************************************)
(* Vocabulary of the properties.                                           *)
(***************************************************************************)
\* Fetch i is the computation of an entry of the table.
InTable(i) == \E k \in DOMAIN cache : cache[k].promise = i

\* Fetch i is a live computation: unsettled, and its signal has not fired.
Live(i) == fetches[i].state = "pending" /\ ~fetches[i].aborted

\* The step is a get on the canonical key k.
GetOn(k) == \E key \in Keys, mode \in FetcherModes : keyToString(key) = k /\ get(key, mode)

\* The step is the settlement of some fetch.
IsSettle == \E id \in DOMAIN fetches, err \in Errors \cup {NoError} : settle(id, err)

\* The store's own state (everything but the clock, the holders and ret).
store == <<strategy, cache, fetches, accessCounter, cleanupTimer, resources, microtasks>>

(***************************************************************************)
(* C1: single-flight.  A get on key k, made while a computation started    *)
(* for k is unsettled and no invalidate, clear, dispose or eviction has    *)
(* fired its signal since (an entry expiring by TTL at this very call      *)
(* counts as evicted), does not invoke its fetcher and returns that        *)
(* computation's promise.                                                  *)
(***************************************************************************)
C1_SingleFlight ==
    [][\A i \in DOMAIN fetches :
          (/\ Live(i)
           /\ GetOn(fetches[i].key)
           /\ ~(InTable(i) /\ isExpired(cache[fetches[i].key], now)))
          => ret' = Returned("promise", i, FALSE)]_vars

(***************************************************************************)
(* C2: in every reachable state each key has at most one live computation  *)
(* (pending, signal not fired); the table, a function of the key, holds at *)
(* most one entry per key.                                                 *)
(***************************************************************************)
C2_OneLiveComputationPerKey ==
    \A i, j \in DOMAIN fetches :
        (i # j /\ Live(i) /\ Live(j)) => fetches[i].key # fetches[j].key

(***************************************************************************)
(* C3: a get on a key whose previous computation was cancelled and removed *)
(* (its promise still pending) finds no entry, invokes its fetcher and     *)
(* returns the promise of the new computation, which the table then holds. *)
(***************************************************************************)
C3_InvalidateThenRefetch ==
    [][\A key \in Keys, mode \in FetcherModes :
          (/\ get(key, mode)
           /\ keyToString(key) \notin DOMAIN cache
           /\ \E i \in DOMAIN fetches : fetches[i].key = keyToString(key) /\ fetches[i].aborted)
          => /\ ret' = Returned("promise", Len(fetches) + 1, TRUE)
             /\ Len(fetches') = Len(fetches) + 1
             /\ fetches'[Len(fetches')].key = keyToString(key)
             /\ fetches'[Len(fetches')].state = "pending"
             /\ ~fetches'[Len(fetches')].aborted
             /\ cache'[keyToString(key)].promise = Len(fetches')]_vars

(***************************************************************************)
(* C4: an organic failure is cached.  An entry whose computation rejected  *)
(* with an error that is no cancellation failure leaves the table only by  *)
(* a step that fires its signal (invalidate, clear, dispose, eviction),    *)
(* and every get on its key before that returns the same promise without   *)
(* invoking a fetcher.                                                     *)
(***************************************************************************)
C4_OrganicFailureStaysCached ==
    [][\A k \in DOMAIN cache :
          LET i == cache[k].promise
          IN  (fetches[i].state = "rejected" /\ ~isAbortError(fetches[i].error))
              => \/ fetches'[i].aborted
                 \/ /\ k \in DOMAIN cache'
                    /\ cache'[k].promise = i
                    /\ GetOn(k) => ret' = Returned("promise", i, FALSE)]_vars

(***************************************************************************)
(* C5: when the computation of a cancelled entry (invalidated, cleared or  *)
(* evicted) rejects with a recognized cancellation failure, be it the      *)
(* DOMException named AbortError or an object with code ERR_CANCELED, its  *)
(* key has no entry afterwards; a get on a key without entry invokes its   *)
(* fetcher, and no get returns the promise of a cancelled computation.     *)
(***************************************************************************)
C5_CancelledIsRetried ==
    [][/\ \A id \in DOMAIN fetches, err \in {AbortErrorDOM, AxiosCancel} :
             (fetches[id].aborted /\ settle(id, err))
             => fetches[id].key \notin DOMAIN cache'
       /\ \A key \in Keys, mode \in FetcherModes :
             get(key, mode)
             => /\ keyToString(key) \notin DOMAIN cache => ret'.invoked
                /\ ret'.kind = "promise" => ~fetches'[ret'.id].aborted]_vars

\* A cancelled computation has rejected and a later get has just invoked its
\* fetcher and stored the new computation.
C5_Witness ==
    /\ ret.kind = "promise"
    /\ ret.invoked
    /\ InTable(ret.id)
    /\ \E i \in 1..(ret.id - 1) :
          fetches[i].aborted /\ fetches[i].state = "rejected" /\ ~InTable(i)

(***************************************************************************)
(* C6: a get whose fetcher throws synchronously does not throw: it stores  *)
(* an entry holding an immediately failed computation and returns its      *)
(* promise.                                                                *)
(***************************************************************************)
C6_SyncThrowIsCached ==
    [][\A key \in Keys :
          (get(key, "throws") /\ ret'.invoked)
          => /\ ret'.kind = "promise"
             /\ keyToString(key) \in DOMAIN cache'
             /\ cache'[keyToString(key)].promise = ret'.id
             /\ fetches'[ret'.id].state = "rejected"]_vars

(***************************************************************************)
(* C7: a cancellation handle has fired if and only if its entry was        *)
(* removed from the table by invalidate, clear, dispose or an eviction:    *)
(* no entry of the table has a fired handle; a handle fires only in a step *)
(* that removes its entry and is no settlement; and every step but a       *)
(* settlement that removes an entry fires its handle.                      *)
(***************************************************************************)
C7_FiredIffRemoved ==
    /\ [](\A i \in DOMAIN fetches : fetches[i].aborted => ~InTable(i))
    /\ [][\A i \in DOMAIN fetches :
             /\ (fetches'[i].aborted /\ ~fetches[i].aborted)
                => (InTable(i) /\ ~InTable(i)' /\ ~IsSettle)
             /\ (InTable(i) /\ ~InTable(i)' /\ ~IsSettle)
                => fetches'[i].aborted]_vars

\* One entry was removed and its handle fired while another entry remains.
C7_Witness ==
    /\ \E i \in DOMAIN fetches : fetches[i].aborted /\ ~InTable(i)
    /\ \E j \in DOMAIN fetches : InTable(j) /\ ~fetches[j].aborted

(***************************************************************************)
(* C8: invalidate(k) changes only key k.  With an entry under k it fires   *)
(* that entry's signal and removes it, and leaves every other entry, its   *)
(* metadata and every other signal as they were; without one it leaves the *)
(* whole store as it was.  It raises no error.                             *)
(***************************************************************************)
C8_InvalidateFrame ==
    [][\A key \in Keys :
          invalidate(key)
          => LET k == keyToString(key)
             IN  /\ ret'.kind # "throw"
                 /\ UNCHANGED <<strategy, accessCounter, cleanupTimer, resources, microtasks>>
                 /\ k \in DOMAIN cache
                    => /\ fetches'[cache[k].promise].aborted
                       /\ DOMAIN cache' = DOMAIN cache \ {k}
                       /\ \A o \in DOMAIN cache' : cache'[o] = cache[o]
                       /\ \A i \in DOMAIN fetches \ {cache[k].promise} : fetches'[i] = fetches[i]
                       /\ Len(fetches') = Len(fetches)
                 /\ k \notin DOMAIN cache => UNCHANGED store]_vars

\* An invalidate has just removed one entry and another entry is still there.
C8_Witness ==
    /\ ret = Void
    /\ \E i \in DOMAIN fetches : fetches[i].aborted /\ fetches[i].state = "pending"
    /\ \E j \in DOMAIN fetches : InTable(j) /\ fetches[j].state = "pending"
    /\ strategy.type = "manual"
    /\ now = 0

(***************************************************************************)
(* C9: after clear() the table is empty and the signal of every entry that *)
(* was in it has fired; on an empty table clear changes nothing.  It       *)
(* raises no error.                                                        *)
(***************************************************************************)
C9_ClearEmptiesAndCancels ==
    [][clear
       => /\ DOMAIN cache' = {}
          /\ \A k \in DOMAIN cache : fetches'[cache[k].promise].aborted
          /\ ret'.kind # "throw"
          /\ DOMAIN cache = {} => UNCHANGED store]_vars

\* Two entries were in the table and a clear has fired both signals.
C9_Witness ==
    /\ DOMAIN cache = {}
    /\ ret = Void
    /\ Len(fetches) = 2
    /\ \A i \in DOMAIN fetches : fetches[i].aborted /\ fetches[i].state = "pending"
    /\ fetches[1].key # fetches[2].key
    /\ strategy.type = "manual"
    /\ now = 0

(***************************************************************************)
(* C10: under LRU with maxSize N >= 1, a get that misses while the table   *)
(* holds N entries evicts exactly the entry with the smallest accessOrder, *)
(* fires its signal, and then admits the new entry.                        *)
(***************************************************************************)
C10_LruEvictsOldestThenAdmits ==
    [][\A key \in Keys, mode \in FetcherModes :
          (/\ get(key, mode)
           /\ strategy.type = "lru"
           /\ keyToString(key) \notin DOMAIN cache
           /\ Cardinality(DOMAIN cache) = strategy.maxSize)
          => \E v \in DOMAIN cache :
                /\ \A o \in DOMAIN cache : cache[v].accessOrder <= cache[o].accessOrder
                /\ fetches'[cache[v].promise].aborted
                /\ DOMAIN cache' = (DOMAIN cache \ {v}) \cup {keyToString(key)}
                /\ \A o \in DOMAIN cache \ {v} : cache'[o] = cache[o]
                /\ cache'[keyToString(key)].promise = Len(fetches) + 1]_vars

(***************************************************************************)
(* The store under LRU with three keys, with resources.                    *)
(***************************************************************************)
LruKeys == {StrKey("a"), StrKey("b"), ArrKey(<<StrElem("a"), NumElem(1)>>)}

LruStrategies == {[type |-> "lru", maxSize |-> 1], [type |-> "lru", maxSize |-> 2]}

InitLru ==
    /\ strategy \in LruStrategies
    /\ cache = Delete(<<>>, {})
    /\ fetches = <<>>
    /\ accessCounter = 0
    /\ cleanupTimer = FALSE
    /\ now = 0
    /\ alive = Holders
    /\ resources = <<>>
    /\ microtasks = <<>>
    /\ ret = Void

NextLru ==
    \/ \E key \in LruKeys, mode \in FetcherModes : get(key, mode)
    \/ \E key \in LruKeys, mode \in FetcherModes : getResource(key, mode)
    \/ \E key \in LruKeys : invalidate(key)
    \/ clear
    \/ \E id \in DOMAIN fetches, err \in Errors \cup {NoError} : settle(id, err)
    \/ thenReaction

SpecLru == InitLru /\ [][NextLru]_vars

(***************************************************************************)
(* C11: under LRU with maxSize N the table never holds more than N         *)
(* entries, whatever get, getResource, invalidate, clear and settlements   *)
(* happen.                                                                 *)
(***************************************************************************)
C11_LruNeverExceedsMaxSize ==
    strategy.type = "lru" => Cardinality(DOMAIN cache) <= strategy.maxSize

\* A third key was admitted to a full table of two: one entry was evicted and
\* the table holds two entries again.
C11_Witness ==
    /\ strategy = [type |-> "lru", maxSize |-> 2]
    /\ Cardinality(DOMAIN cache) = 2
    /\ Len(fetches) = 3
    /\ \A i \in DOMAIN fetches : fetches[i].state = "pending"
    /\ ret.invoked
    /\ InTable(3)
    /\ Cardinality({i \in DOMAIN fetches : fetches[i].aborted}) = 1

(***************************************************************************)
(* C12: under TTL with ttl = T, a get on a key whose entry has             *)
(* now - createdAt > T removes that entry, invokes its fetcher and stores  *)
(* a new entry with createdAt = now; a get on a key whose entry has        *)
(* now - createdAt <= T returns the cached promise without invoking its    *)
(* fetcher.  Both hold with the sweep timer installed or not.              *)
(***************************************************************************)
C12_TtlCheckedOnGet ==
    [][\A key \in Keys, mode \in FetcherModes :
          (/\ strategy.type = "ttl"
           /\ keyToString(key) \in DOMAIN cache
           /\ get(key, mode))
          => LET k == keyToString(key)
                 old == cache[k].promise
             IN  IF now - cache[k].createdAt > strategy.ttl
                 THEN /\ ret' = Returned("promise", Len(fetches) + 1, TRUE)
                      /\ k \in DOMAIN cache'
                      /\ cache'[k].promise = Len(fetches) + 1
                      /\ cache'[k].createdAt = now
                 ELSE /\ ret' = Returned("promise", old, FALSE)
                      /\ cache'[k].promise = old
                      /\ cache'[k].createdAt = cache[k].createdAt]_vars

(***************************************************************************)
(* The store under the two strategies with a timer: get, settlements, the  *)
(* clock, the sweeps, dispose.  Signals fire here by expiry (in get or in  *)
(* the TTL sweep), by the reference-counting sweep, or by dispose.         *)
(***************************************************************************)
TimerStrategies ==
    {[type |-> "ttl", ttl |-> 1], [type |-> "reference-counting", gracePeriod |-> 1]}

InitTimers ==
    /\ strategy \in TimerStrategies
    /\ cache = Delete(<<>>, {})
    /\ fetches = <<>>
    /\ accessCounter = 0
    /\ cleanupTimer = TRUE
    /\ now = 0
    /\ alive = Holders
    /\ resources = <<>>
    /\ microtasks = <<>>
    /\ ret = Void

NextTimers ==
    \/ \E key \in Keys, mode \in FetcherModes : get(key, mode)
    \/ \E id \in DOMAIN fetches, err \in Errors \cup {NoError} : settle(id, err)
    \/ Tick
    \/ ttlSweep
    \/ refCountingSweep
    \/ dispose

SpecTimers == InitTimers /\ [][NextTimers]_vars

\* The entry under key k is older than ttl.
Aged(k) == now - cache[k].createdAt > strategy.ttl

RefStrategies == {[type |-> "reference-counting", gracePeriod |-> 1]}

RefKeys == {StrKey("a"), ArrKey(<<StrElem("a")>>)}

InitRefs ==
    /\ strategy \in RefStrategies
    /\ cache = Delete(<<>>, {})
    /\ fetches = <<>>
    /\ accessCounter = 0
    /\ cleanupTimer = TRUE
    /\ now = 0
    /\ alive = Holders
    /\ resources = <<>>
    /\ microtasks = <<>>
    /\ ret = Void

NextRefs ==
    \/ \E key \in RefKeys, mode \in FetcherModes : get(key, mode)
    \/ \E key \in RefKeys, ref \in Holders : addReference(key, ref)
    \/ \E key \in RefKeys, ref \in Holders : removeReference(key, ref)
    \/ \E h \in Holders : Collect(h)
    \/ \E id \in DOMAIN fetches, err \in Errors \cup {NoError} : settle(id, err)
    \/ Tick
    \/ refCountingSweep

SpecRefs == InitRefs /\ [][NextRefs]_vars

\* The step is a run of the reference-counting sweep (only a step that
\* returns nothing and leaves the clock and the holders alone can be one).
SweepRuns == ret' = Void /\ now' = now /\ alive' = alive /\ refCountingSweep

\* The time since the last access of the entry under key k.
Idle(k) == now - cache[k].lastAccessed

\* The sweep keeps the entry under key k with its computation i untouched.
Kept(k, i) == k \in DOMAIN cache' /\ cache'[k].promise = i /\ ~fetches'[i].aborted

(***************************************************************************)
(* C14: under reference-counting the sweep never evicts an entry while     *)
(* now - lastAccessed <= gracePeriod, whatever its references; and every   *)
(* get hit sets lastAccessed to now, restarting the window.                *)
(***************************************************************************)
C14_NoEvictionWithinGrace ==
    [][/\ SweepRuns
          => \A k \in DOMAIN cache, i \in DOMAIN fetches :
                (cache[k].promise = i /\ Idle(k) <= strategy.gracePeriod) => Kept(k, i)
       /\ \A key \in Keys, mode \in FetcherModes :
             (/\ ret' # Void
              /\ strategy.type = "reference-counting"
              /\ keyToString(key) \in DOMAIN cache
              /\ get(key, mode))
             => cache'[keyToString(key)].lastAccessed = now]_vars

\* A sweep at time 2 evicted an entry and kept an unreferenced one that was
\* created at 0 and hit at 1.
C14_Witness ==
    /\ strategy.type = "reference-counting"
    /\ now = 2
    /\ \E i \in DOMAIN fetches : fetches[i].aborted
    /\ \E k \in DOMAIN cache :
          /\ cache[k].createdAt = 0
          /\ cache[k].lastAccessed = 1
          /\ RefsSize(cache[k].references) = 0

(***************************************************************************)
(* C15, as claimed: a sweep at a time with now - lastAccessed >=           *)
(* gracePeriod evicts an entry without live holder references: it fires    *)
(* its signal and removes it.                                              *)
(***************************************************************************)
C15_SweepEvictsAtDeadline ==
    [][SweepRuns
       => \A k \in DOMAIN cache, i \in DOMAIN fetches :
             (/\ cache[k].promise = i
              /\ RefsSize(LiveRefs(cache[k].references)) = 0
              /\ Idle(k) >= strategy.gracePeriod)
             => (k \notin DOMAIN cache' /\ fetches'[i].aborted)]_vars

(***************************************************************************)
(* C15, amended: a sweep at a time with now - lastAccessed > gracePeriod   *)
(* (strictly after the deadline) evicts an entry without live holder       *)
(* references: it fires its signal and removes it, and a get on a key      *)
(* without entry invokes its fetcher.  At now - lastAccessed = gracePeriod *)
(* the sweep keeps the entry.                                              *)
(***************************************************************************)
C15_SweepEvictsAfterDeadline ==
    [][/\ SweepRuns
          => \A k \in DOMAIN cache, i \in DOMAIN fetches :
                (cache[k].promise = i /\ RefsSize(LiveRefs(cache[k].references)) = 0)
                => /\ Idle(k) > strategy.gracePeriod
                      => (k \notin DOMAIN cache' /\ fetches'[i].aborted)
                   /\ Idle(k) = strategy.gracePeriod => Kept(k, i)
       /\ \A key \in Keys, mode \in FetcherModes :
             (ret' # Void /\ keyToString(key) \notin DOMAIN cache /\ get(key, mode))
             => ret'.invoked]_vars

\* The sweep evicted an entry whose computation was pending, and a later get
\* on its key started a new computation.
C15_Witness ==
    /\ strategy.type = "reference-counting"
    /\ \E i, j \in DOMAIN fetches :
          /\ fetches[i].aborted /\ fetches[i].state = "pending"
          /\ i < j /\ fetches[j].key = fetches[i].key
          /\ ret = Returned("promise", j, TRUE)

(***************************************************************************)
(* C16: under reference-counting the sweep never evicts an entry that has  *)
(* a reference of a holder that is still alive, however long ago it was    *)
(* last accessed.                                                          *)
(***************************************************************************)
C16_ReferencedNeverEvicted ==
    [][SweepRuns
       => \A k \in DOMAIN cache, i \in DOMAIN fetches :
             (cache[k].promise = i /\ \E h \in alive : cache[k].references[h] > 0)
             => Kept(k, i)]_vars

\* A sweep at time 2 evicted an entry and kept one that was last accessed at
\* 0 and has a reference of a live holder.
C16_Witness ==
    /\ strategy.type = "reference-counting"
    /\ now = 2
    /\ \E i \in DOMAIN fetches : fetches[i].aborted
    /\ \E k \in DOMAIN cache :
          /\ cache[k].lastAccessed = 0
          /\ \E h \in alive : cache[k].references[h] > 0

(***************************************************************************)
(* The disposed store: createAsyncStore(config) followed by dispose(),     *)
(* under every strategy, and the calls made on it afterwards.              *)
(***************************************************************************)
InitDisposed ==
    /\ strategy \in Strategies
    /\ cache = Delete(<<>>, {})
    /\ fetches = <<>>
    /\ accessCounter = 0
    /\ cleanupTimer = FALSE
    /\ now = 0
    /\ alive = Holders
    /\ resources = <<>>
    /\ microtasks = <<>>
    /\ ret = Void

NextDisposed ==
    \/ \E key \in Keys, mode \in FetcherModes : get(key, mode)
    \/ \E key \in Keys : invalidate(key)
    \/ clear
    \/ dispose
    \/ \E id \in DOMAIN fetches, err \in Errors \cup {NoError} : settle(id, err)
    \/ Tick

SpecDisposed == InitDisposed /\ [][NextDisposed]_vars

\* What a get on key k does on a manual store: it fires no signal, removes
\* no entry, and returns the promise of the entry under k if there is one.
AsManual(k) ==
    /\ \A i \in DOMAIN fetches : fetches'[i].aborted = fetches[i].aborted
    /\ DOMAIN cache \subseteq DOMAIN cache'
    /\ k \in DOMAIN cache => ret' = Returned("promise", cache[k].promise, FALSE)

(***************************************************************************)
(* C17, as claimed: on a disposed store, under every strategy, dispose     *)
(* leaves the table empty and every get behaves as on a manual store: no   *)
(* entry is expired by a TTL age check and none is evicted for capacity.   *)
(***************************************************************************)
C17_DisposedBehavesAsManual ==
    [][/\ dispose => DOMAIN cache' = {}
       /\ \A key \in Keys, mode \in FetcherModes :
             (ret' # Void /\ get(key, mode)) => AsManual(keyToString(key))]_vars

(***************************************************************************)
(* C17, amended: on a disposed store dispose leaves the table empty and    *)
(* the timer stays cleared, so no entry is ever swept.  Under              *)
(* reference-counting and manual every get behaves as on a manual store.   *)
(* Under TTL a get on an entry older than ttl still expires it (fires its  *)
(* signal and invokes the fetcher), and under LRU a get that misses on a   *)
(* full table still evicts the least recently used entry.                  *)
(***************************************************************************)
C17_DisposedKeepsAccessChecks ==
    /\ [](~cleanupTimer)
    /\ [][/\ dispose => DOMAIN cache' = {}
          /\ \A key \in Keys, mode \in FetcherModes :
                (ret' # Void /\ get(key, mode))
                => LET k == keyToString(key)
                   IN  /\ strategy.type \in {"reference-counting", "manual"} => AsManual(k)
                       /\ (strategy.type = "ttl" /\ k \in DOMAIN cache)
                          => IF Aged(k)
                             THEN fetches'[cache[k].promise].aborted /\ ret'.invoked
                             ELSE AsManual(k)
                       /\ strategy.type = "lru"
                          => IF k \notin DOMAIN cache
                                /\ Cardinality(DOMAIN cache) >= strategy.maxSize
                             THEN /\ ret'.invoked
                                  /\ \E v \in DOMAIN cache :
                                        /\ v \notin DOMAIN cache'
                                        /\ fetches'[cache[v].promise].aborted
                             ELSE AsManual(k)]_vars

\* On a disposed TTL store the second get ever made found the entry of the
\* first older than ttl: it fired its signal and started a new computation.
C17_Witness ==
    /\ strategy.type = "ttl"
    /\ ~cleanupTimer
    /\ accessCounter = 2
    /\ Len(fetches) = 2
    /\ fetches[1].aborted /\ fetches[1].state = "pending"
    /\ fetches[1].key = fetches[2].key
    /\ ret = Returned("promise", 2, TRUE)
    /\ now = 2
    /\ cache[fetches[2].key].createdAt = 2

(***************************************************************************)
(* C18: after dispose() the timer is cleared and stays cleared, and from   *)
(* then on no step of a timer evicts or cancels anything: an entry leaves  *)
(* the table, and a signal fires, only in a get, in a dispose or (the      *)
(* entry, by the catch handler) in a settlement.  This covers the entries  *)
(* created by get after disposal.                                          *)
(***************************************************************************)
C18_NoSweepAfterDispose ==
    [][/\ dispose => ~cleanupTimer'
       /\ ~cleanupTimer
          => /\ ~cleanupTimer'
             /\ (\E i \in DOMAIN fetches : InTable(i) /\ ~InTable(i)')
                => (ret' # Void \/ dispose \/ IsSettle)
             /\ (\E i \in DOMAIN fetches : fetches'[i].aborted /\ ~fetches[i].aborted)
                => (ret' # Void \/ dispose)]_vars

\* On a disposed store two entries were created; one is older than ttl (or
\* idle for longer than gracePeriod) and both are still there, uncancelled.
C18_Witness ==
    /\ ~cleanupTimer
    /\ Cardinality(DOMAIN cache) = 2
    /\ \E k \in DOMAIN cache : cache[k].createdAt = 0 /\ cache[k].lastAccessed = 0 /\ now = 2
    /\ \E k \in DOMAIN cache : cache[k].createdAt = 1
    /\ \A k \in DOMAIN cache : ~fetches[cache[k].promise].aborted

(***************************************************************************)
(* C19: under the manual strategy no timer is installed and there is no    *)
(* capacity limit.  The passage of time changes nothing in the store; a    *)
(* signal fires only in an invalidate, a clear or a dispose; a get removes *)
(* and cancels nothing, returns the cached promise of its key however old  *)
(* the entry is, and on a miss adds its entry beside all the others.       *)
(***************************************************************************)
C19_ManualKeepsEverything ==
    /\ [](strategy.type = "manual" => ~cleanupTimer)
    /\ [][strategy.type = "manual"
          => /\ now' # now => UNCHANGED store
             /\ (\E i \in DOMAIN fetches : fetches'[i].aborted /\ ~fetches[i].aborted)
                => (ret' = Void /\ ((\E key \in Keys : invalidate(key)) \/ clear \/ dispose))
             /\ \A key \in Keys, mode \in FetcherModes :
                   (ret' # Void /\ get(key, mode))
                   => /\ AsManual(keyToString(key))
                      /\ mode = "returns"
                         => DOMAIN cache' = DOMAIN cache \cup {keyToString(key)}]_vars

\* Under manual, at time 2, every key of the model is cached and a get has
\* just returned the promise of an entry created at time 0.
C19_Witness ==
    /\ strategy.type = "manual"
    /\ now = 2
    /\ DOMAIN cache = {keyToString(key) : key \in Keys}
    /\ \E k \in DOMAIN cache :
          /\ cache[k].createdAt = 0
          /\ cache[k].lastAccessed = 2
          /\ ret = Returned("promise", cache[k].promise, FALSE)
    /\ \A i \in DOMAIN fetches : ~fetches[i].aborted

(***************************************************************************)
(* The store with a timer, with time passing and the TTL interval firing   *)
(* again and again (setInterval) for as long as it is installed.  No       *)
(* fairness is assumed of the callers: a get may never come.               *)
(***************************************************************************)
FairSpecTimers == SpecTimers /\ WF_vars(Tick) /\ WF_vars(ttlSweep)

\* The entry of computation i is in the table of a TTL store whose timer is
\* installed, and the clock of the model can still pass its ttl.
WillAge(i) ==
    /\ strategy.type = "ttl"
    /\ cleanupTimer
    /\ \E k \in DOMAIN cache :
          cache[k].promise = i /\ cache[k].createdAt + strategy.ttl < MaxTime

(***************************************************************************)
(* C20: under TTL, while the timer is installed and keeps firing, every    *)
(* entry is eventually removed from the table once it is older than ttl,   *)
(* whether or not any get is made.                                         *)
(***************************************************************************)
C20_TtlSweepEventuallyRemoves ==
    \A i \in 1..MaxFetches : WillAge(i) ~> ~InTable(i)

\* The one get ever made created an entry; the store was not disposed; the
\* sweep removed the entry and fired its signal.
C20_Witness ==
    /\ strategy.type = "ttl"
    /\ cleanupTimer
    /\ accessCounter = 1
    /\ Len(fetches) = 1
    /\ fetches[1].aborted
    /\ DOMAIN cache = {}

(***************************************************************************)
(* The store under reference-counting with time passing and the sweep      *)
(* interval firing again and again (the store of SpecRefs is never         *)
(* disposed).  No fairness is assumed of the callers or of the collector.  *)
(***************************************************************************)
FairSpecRefs == SpecRefs /\ WF_vars(Tick) /\ WF_vars(refCountingSweep)

\* The entry of computation i was last accessed at t, has no reference of a
\* live holder, and the clock of the model can still pass its grace period.
Unheld(i, t) ==
    /\ t + strategy.gracePeriod < MaxTime
    /\ \E k \in DOMAIN cache :
          /\ cache[k].promise = i
          /\ cache[k].lastAccessed = t
          /\ RefsSize(LiveRefs(cache[k].references)) = 0

\* The entry of computation i was accessed after t or has a live holder.
Reused(i, t) ==
    \E k \in DOMAIN cache :
       /\ cache[k].promise = i
       /\ \/ cache[k].lastAccessed # t
          \/ RefsSize(LiveRefs(cache[k].references)) > 0

\* Computation i was cancelled and its entry removed.
Evicted(i) == i \in DOMAIN fetches /\ fetches[i].aborted /\ ~InTable(i)

(***************************************************************************)
(* C21: under reference-counting, with the timer installed and firing, an  *)
(* entry without reference of a live holder (none added, all removed, or   *)
(* holders collected) that is not accessed again is eventually cancelled   *)
(* and removed; and a sweep leaves no reference of a collected holder in   *)
(* any entry.                                                              *)
(***************************************************************************)
C21_UnheldEventuallyEvicted ==
    /\ \A i \in 1..MaxFetches, t \in 0..MaxTime :
          Unheld(i, t) ~> (Evicted(i) \/ Reused(i, t))
    /\ [][SweepRuns
          => \A k \in DOMAIN cache', h \in Holders \ alive :
                cache'[k].references[h] = 0]_vars

\* What read() of Resource id does according to the state of its computation.
ReadOf(id) ==
    LET p == fetches[resources[id].promise].state
    IN  IF p = "pending" THEN "throws suspender"
        ELSE IF p = "rejected" THEN "throws error" ELSE "returns value"

(***************************************************************************)
(* C22: read() of a Resource has three outcomes, determined by its         *)
(* computation: it throws the suspender while the computation is pending,  *)
(* throws the computation's error after it failed, and returns its value   *)
(* after it succeeded.                                                     *)
(***************************************************************************)
C22_ReadFollowsComputation ==
    \A id \in DOMAIN resources :
        /\ read(id).kind = ReadOf(id)
        /\ read(id).kind # "throws suspender" => read(id).id = resources[id].promise

\* The part of C22 that forbids wrong answers: read() returns a value only for
\* a computation that succeeded and throws an error only for one that failed.
C22_ReadNeverWrong ==
    \A id \in DOMAIN resources :
        /\ read(id).kind = "returns value" => ReadOf(id) = "returns value"
        /\ read(id).kind = "throws error" => ReadOf(id) = "throws error"

(***************************************************************************)
(* The whole API of the store under every strategy: get, getResource,      *)
(* invalidate, clear, dispose, addReference, removeReference, with the     *)
(* timers, the settlements and their reactions, and the clock.  Every      *)
(* holder stays alive.                                                     *)
(***************************************************************************)
ApiKeys == {StrKey("a"), ArrKey(<<StrElem("a"), NumElem(1)>>)}

NextApi ==
    \/ \E key \in ApiKeys, mode \in FetcherModes : get(key, mode)
    \/ \E key \in ApiKeys, mode \in FetcherModes : getResource(key, mode)
    \/ \E key \in ApiKeys : invalidate(key)
    \/ clear
    \/ dispose
    \/ \E key \in ApiKeys, ref \in Holders : addReference(key, ref)
    \/ \E key \in ApiKeys, ref \in Holders : removeReference(key, ref)
    \/ refCountingSweep
    \/ ttlSweep
    \/ \E id \in DOMAIN fetches, err \in Errors \cup {NoError} : settle(id, err)
    \/ thenReaction
    \/ Tick

SpecApi == Init /\ [][NextApi]_vars

\* The table holds under k an entry that get will return (under TTL, one that
\* is not older than ttl).
Usable(k) == k \in DOMAIN cache /\ ~(strategy.type = "ttl" /\ Aged(k))

\* The step is one of the operations and callbacks that take no fetcher.
TakesNoFetcher ==
    \/ \E key \in ApiKeys : invalidate(key)
    \/ clear
    \/ dispose
    \/ \E key \in ApiKeys, ref \in Holders : addReference(key, ref) \/ removeReference(key, ref)
    \/ refCountingSweep
    \/ ttlSweep
    \/ IsSettle
    \/ thenReaction

(***************************************************************************)
(* C23: the store starts no computation on its own.  A fetcher is invoked  *)
(* only inside a get or getResource call whose key has no usable entry,    *)
(* once per such call (one new computation, or the fetcher's exception); a *)
(* call that finds a usable entry invokes none; and no invalidate, clear,  *)
(* dispose, addReference, removeReference, sweep, settlement or reaction   *)
(* invokes one or adds a computation.                                      *)
(***************************************************************************)
C23_FetcherOnlyInGetMiss ==
    [][/\ ret' = Void => Len(fetches') = Len(fetches)
       /\ ret' # Void
          => /\ ~TakesNoFetcher
             /\ \E key \in ApiKeys, mode \in FetcherModes :
                   /\ get(key, mode) \/ getResource(key, mode)
                   /\ ret'.invoked = ~Usable(keyToString(key))
                   /\ Len(fetches') = Len(fetches)
                         + (IF ret'.invoked /\ mode = "returns" THEN 1 ELSE 0)]_vars

\* Three calls were made on one key and its fetcher was invoked once: the
\* computation failed, time passed, and the last call returned the cached
\* promise of the failure.
C23_Witness ==
    /\ accessCounter = 3
    /\ Len(fetches) = 1
    /\ fetches[1].state = "rejected"
    /\ now > 0
    /\ ret = Returned("promise", 1, FALSE)

\* The state dispose() leaves: an empty table and no timer.
Disposed == DOMAIN cache = {} /\ ~cleanupTimer

(***************************************************************************)
(* C24: dispose() is idempotent and safe under every strategy.  Every      *)
(* dispose, with a timer installed or not, returns without error and       *)
(* leaves the table empty and the timer cleared; and a dispose called in   *)
(* the state a dispose left changes nothing at all.                        *)
(***************************************************************************)
C24_DisposeIdempotent ==
    [][dispose
       => /\ ret' = Void
          /\ Disposed'
          /\ Disposed => UNCHANGED <<store, now, alive>>]_vars

\* A store created with a timer was disposed while two computations were
\* pending: the table is empty, the timer cleared, both signals fired.
C24_Witness ==
    /\ strategy.type \in {"reference-counting", "ttl"}
    /\ Disposed
    /\ ret = Void
    /\ Len(fetches) = 2
    /\ \A i \in DOMAIN fetches : fetches[i].aborted /\ fetches[i].state = "pending"

(***************************************************************************)
(* The store under the three strategies that create no registry (lru, ttl, *)
(* manual), with holders calling addReference and removeReference.         *)
(***************************************************************************)
UntrackedStrategies == {s \in Strategies : s.type # "reference-counting"}

InitUntracked ==
    /\ strategy \in UntrackedStrategies
    /\ cache = Delete(<<>>, {})
    /\ fetches = <<>>
    /\ accessCounter = 0
    /\ cleanupTimer = (strategy.type = "ttl")
    /\ now = 0
    /\ alive = Holders
    /\ resources = <<>>
    /\ microtasks = <<>>
    /\ ret = Void

NextUntracked ==
    \/ \E key \in Keys, mode \in FetcherModes : get(key, mode)
    \/ \E key \in Keys, ref \in Holders : addReference(key, ref)
    \/ \E key \in Keys, ref \in Holders : removeReference(key, ref)
    \/ \E key \in Keys : invalidate(key)
    \/ clear
    \/ dispose
    \/ ttlSweep
    \/ \E id \in DOMAIN fetches, err \in Errors \cup {NoError} : settle(id, err)
    \/ Tick

SpecUntracked == InitUntracked /\ [][NextUntracked]_vars

(***************************************************************************)
(* C25: under lru, ttl and manual, addReference and removeReference change *)
(* nothing: the table, every entry's metadata and references, every signal *)
(* and the rest of the store stay as they were, so that what is evicted    *)
(* later cannot depend on them; and the reference set of every entry stays *)
(* empty.                                                                  *)
(***************************************************************************)
C25_ReferencesIgnoredWithoutRegistry ==
    /\ [](strategy.type # "reference-counting"
          => \A k \in DOMAIN cache : cache[k].references = NoRefs)
    /\ [][\A key \in Keys, ref \in Holders :
             (/\ ret' = Void
              /\ strategy.type # "reference-counting"
              /\ addReference(key, ref) \/ removeReference(key, ref))
             => UNCHANGED <<store, now, alive>>]_vars

\* Without registry, after a get created the one entry of the table, a call
\* that returns nothing was made (addReference on its key is one) and the
\* entry is as the get left it.
C25_Witness ==
    /\ strategy.type # "reference-counting"
    /\ ret = Void
    /\ now = 0
    /\ accessCounter = 1
    /\ Len(fetches) = 1
    /\ \E k \in DOMAIN cache : cache[k] = NewEntry(1, 0, 1)
    /\ Live(1)

(***************************************************************************)
(* Key normalisation: a manual store (nothing but the callers removes an   *)
(* entry) addressed with string keys and with array keys of one and two    *)
(* elements: strings, numbers, null and undefined.                         *)
(***************************************************************************)
KeyElems == {StrElem("x"), NumElem(1), NullElem, UndefinedElem}

NormKeys ==
    {StrKey("x"), StrKey("[\"x\"]")}
        \cup {ArrKey(<<a>>) : a \in KeyElems}
        \cup {ArrKey(<<a, b>>) : a, b \in KeyElems}

KeyStrategies == {[type |-> "manual"]}

InitKeys ==
    /\ strategy \in KeyStrategies
    /\ cache = Delete(<<>>, {})
    /\ fetches = <<>>
    /\ accessCounter = 0
    /\ cleanupTimer = FALSE
    /\ now = 0
    /\ alive = Holders
    /\ resources = <<>>
    /\ microtasks = <<>>
    /\ ret = Void

NextKeys ==
    \/ \E key \in NormKeys, mode \in FetcherModes : get(key, mode)
    \/ \E key \in NormKeys : invalidate(key)
    \/ \E id \in DOMAIN fetches, err \in Errors \cup {NoError} : settle(id, err)

SpecKeys == InitKeys /\ [][NextKeys]_vars

\* key2 is an array key with the elements of the array key key1 in another order.
Reordered(key1, key2) ==
    /\ "arr" \in DOMAIN key1 /\ "arr" \in DOMAIN key2
    /\ Len(key1.arr) = Len(key2.arr)
    /\ key1.arr # key2.arr
    /\ \E f \in [1..Len(key1.arr) -> 1..Len(key1.arr)] :
          /\ \A i, j \in 1..Len(key1.arr) : f[i] = f[j] => i = j
          /\ \A i \in 1..Len(key1.arr) : key2.arr[i] = key1.arr[f[i]]

\* The table holds the entry that get(key1, ...) addresses.
Cached(key1) == keyToString(key1) \in DOMAIN cache

(***************************************************************************)
(* C26: key normalisation is deterministic and order-sensitive.  A string  *)
(* key is its own token.  With the entry of key1 in the table, a get with  *)
(* an equal key returns that entry's promise without invoking its fetcher, *)
(* and a get with an array key that has the elements of key1 in another    *)
(* order does not return that entry's promise.                             *)
(***************************************************************************)
C26_KeysOrderSensitive ==
    /\ [](\A key \in NormKeys : "str" \in DOMAIN key => keyToString(key) = key.str)
    /\ [][\A key1, key2 \in NormKeys, mode \in FetcherModes :
             (Cached(key1) /\ get(key2, mode))
             => LET p == cache[keyToString(key1)].promise
                IN  /\ key1 = key2 => ret' = Returned("promise", p, FALSE)
                    /\ Reordered(key1, key2)
                       => ~(ret'.kind = "promise" /\ ret'.id = p)]_vars

\* One of the keys is a string and the other an array.
Mixed(key1, key2) ==
    \/ "str" \in DOMAIN key1 /\ "arr" \in DOMAIN key2
    \/ "arr" \in DOMAIN key1 /\ "str" \in DOMAIN key2

(***************************************************************************)
(* C27: a string key and an array key never address the same entry: with   *)
(* the entry of one in the table, a get with the other does not return     *)
(* that entry's promise and invokes its fetcher unless an entry of its own *)
(* is there.                                                               *)
(***************************************************************************)
C27_StringAndArrayKeysDistinct ==
    [][\A key1, key2 \in NormKeys, mode \in FetcherModes :
          (Mixed(key1, key2) /\ Cached(key1) /\ get(key2, mode))
          => /\ keyToString(key1) # keyToString(key2)
             /\ ~(ret'.kind = "promise" /\ ret'.id = cache[keyToString(key1)].promise)
             /\ ~Cached(key2) => ret'.invoked]_vars

\* The instance of C27 the claim names: get("x") and get(["x"]) address
\* distinct entries.
C27_PlainStringAndItsArrayDistinct ==
    [][\A mode \in FetcherModes :
          /\ (Cached(StrKey("x")) /\ get(ArrKey(<<StrElem("x")>>), mode))
             => ~(ret'.kind = "promise" /\ ret'.id = cache["x"].promise)
          /\ (Cached(ArrKey(<<StrElem("x")>>)) /\ get(StrKey("x"), mode))
             => ~(ret'.kind = "promise" /\ ret'.id = cache["[\"x\"]"].promise)]_vars

(***************************************************************************)
(* C28: the rejection of a computation whose entry was already removed     *)
(* (by invalidate, clear, dispose or an eviction) leaves the table as it   *)
(* is: an entry created later for the same key stays, unaltered, and a get *)
(* on that key goes on returning its promise without invoking a fetcher.   *)
(***************************************************************************)
C28_StaleRejectionKeepsNewEntry ==
    [][\A id \in DOMAIN fetches, err \in Errors :
          (ret' = Void /\ ~InTable(id) /\ settle(id, err)) => cache' = cache]_vars

(***************************************************************************)
(* C29: a rejection removes an entry only if that entry's own signal had   *)
(* fired.  When the computation of an entry whose signal never fired       *)
(* rejects, with whatever error (AbortError and ERR_CANCELED included),    *)
(* the entry stays in the table, holding the failure.                      *)
(***************************************************************************)
C29_UnfiredRejectionStaysCached ==
    [][\A id \in DOMAIN fetches, err \in Errors :
          (ret' = Void /\ InTable(id) /\ ~fetches[id].aborted /\ settle(id, err))
          => /\ fetches[id].key \in DOMAIN cache'
             /\ cache'[fetches[id].key] = cache[fetches[id].key]
             /\ fetches'[id].state = "rejected"]_vars

(***************************************************************************)
(* C30: a get whose fetcher throws synchronously leaves the store exactly  *)
(* as it was before the call, under every strategy: it adds no entry and   *)
(* removes, evicts and cancels none.                                       *)
(***************************************************************************)
C30_SyncThrowChangesNothing ==
    [][\A key \in Keys :
          (ret'.kind = "throw" /\ get(key, "throws")) => UNCHANGED store]_vars

\* The part of C30 that holds: under reference-counting and manual a get
\* whose fetcher throws leaves the store as it was.
C30_SyncThrowHarmlessWithoutEviction ==
    [][\A key \in Keys :
          (/\ ret'.kind = "throw"
           /\ strategy.type \in {"reference-counting", "manual"}
           /\ get(key, "throws"))
          => UNCHANGED store]_vars

(***************************************************************************)
(* C31: cancellation is authoritative to the store.  When a computation    *)
(* whose entry was already removed succeeds, or fails with an error that   *)
(* is no cancellation failure, the table stays as it is; a computation     *)
(* that left the table never returns to it; and every promise a get        *)
(* returns is that of an entry of the table, so that no get returns the    *)
(* result of a removed computation.                                        *)
(***************************************************************************)
C31_RemovedResultDiscarded ==
    [][/\ \A id \in DOMAIN fetches :
             /\ \A err \in {NoError, NetworkError} :
                   (ret' = Void /\ cache' # cache /\ ~InTable(id)) => ~settle(id, err)
             /\ ~InTable(id) => ~InTable(id)'
       /\ ret'.kind = "promise"
          => \E k \in DOMAIN cache' : cache'[k].promise = ret'.id]_vars

\* A cancelled computation succeeded after a new one was started, and a
\* later get returned the promise of the new one, still pending.
C31_Witness ==
    /\ Len(fetches) = 2
    /\ fetches[1].aborted /\ fetches[1].state = "fulfilled"
    /\ InTable(2) /\ Live(2)
    /\ ret = Returned("promise", 2, FALSE)

\* The keys of the entries that hold the smallest accessOrder of the table.
LruVictims == {k \in DOMAIN cache : \A o \in DOMAIN cache : cache[k].accessOrder <= cache[o].accessOrder}

(***************************************************************************)
(* C32: the access counter of the store only grows: it rises by one with   *)
(* every entry creation and every hit, which stamp the entry with the new  *)
(* value, and no other step (invalidate, clear and dispose included)       *)
(* changes it.  So in every state the entries of the table have pairwise   *)
(* distinct accessOrder values between 1 and the counter, and a table that *)
(* is not empty has exactly one entry with the smallest accessOrder.       *)
(***************************************************************************)
C32_AccessCounterMonotone ==
    /\ [](/\ \A k \in DOMAIN cache : cache[k].accessOrder \in 1..accessCounter
          /\ \A k, o \in DOMAIN cache : k # o => cache[k].accessOrder # cache[o].accessOrder
          /\ DOMAIN cache # {} => Cardinality(LruVictims) = 1)
    /\ [][/\ accessCounter' >= accessCounter
          /\ ret'.kind # "promise" => accessCounter' = accessCounter
          /\ \A key \in Keys, mode \in FetcherModes :
                (ret'.kind = "promise" /\ get(key, mode))
                => /\ accessCounter' = accessCounter + 1
                   /\ cache'[keyToString(key)].accessOrder = accessCounter']_vars

\* A store created with a timer was disposed after its first get; two more
\* gets created the two entries of the table, stamped 2 and 3.
C32_Witness ==
    /\ accessCounter = 3
    /\ ~cleanupTimer
    /\ strategy.type \in {"reference-counting", "ttl"}
    /\ fetches[1].aborted
    /\ {cache[k].accessOrder : k \in DOMAIN cache} = {2, 3}

(***************************************************************************)
(* The store under the two strategies that read the timestamps of an entry *)
(* (ttl reads createdAt, reference-counting reads lastAccessed), with a    *)
(* holder adding and removing references: get, the references, the clock,  *)
(* the sweeps and settlements.                                             *)
(***************************************************************************)
NextHits ==
    \/ \E key \in RefKeys, mode \in FetcherModes : get(key, mode)
    \/ \E key \in RefKeys, ref \in Holders : addReference(key, ref)
    \/ \E key \in RefKeys, ref \in Holders : removeReference(key, ref)
    \/ \E id \in DOMAIN fetches, err \in Errors \cup {NoError} : settle(id, err)
    \/ Tick
    \/ ttlSweep
    \/ refCountingSweep

SpecHits == InitTimers /\ [][NextHits]_vars

(***************************************************************************)
(* C33: a get that hits sets lastAccessed of its entry to now and its      *)
(* accessOrder to a new maximum of the store, and leaves createdAt, the    *)
(* promise, the references, every signal and every other entry as they     *)
(* were.  A hit does not extend the life of an entry under TTL: a get on   *)
(* an entry older than ttl expires it however recently it was hit.         *)
(***************************************************************************)
C33_HitUpdatesOnlyAccessData ==
    [][\A key \in RefKeys, mode \in FetcherModes :
          (ret' # Void /\ keyToString(key) \in DOMAIN cache /\ get(key, mode))
          => LET k == keyToString(key)
             IN  IF Usable(k)
                 THEN /\ cache' = [cache EXCEPT ![k].lastAccessed = now,
                                                ![k].accessOrder = accessCounter + 1]
                      /\ \A o \in DOMAIN cache : cache[o].accessOrder < cache'[k].accessOrder
                      /\ fetches' = fetches
                      /\ ret' = Returned("promise", cache[k].promise, FALSE)
                 ELSE /\ fetches'[cache[k].promise].aborted
                      /\ ret'.invoked]_vars

\* Under TTL an entry created at 0 was hit at 1 and expired by the get at 2,
\* which started a new computation.
C33_Witness ==
    /\ strategy.type = "ttl"
    /\ now = 2
    /\ accessCounter = 3
    /\ Len(fetches) = 2
    /\ fetches[1].aborted
    /\ ret = Returned("promise", 2, TRUE)

\* Under reference-counting a hit at 1 on an entry created at 0 that holds a
\* reference left createdAt and the reference as they were.
C33_WitnessReferenced ==
    /\ strategy.type = "reference-counting"
    /\ \E k \in DOMAIN cache :
          /\ cache[k].createdAt = 0
          /\ cache[k].lastAccessed = 1
          /\ RefsSize(cache[k].references) = 1
          /\ ret = Returned("promise", cache[k].promise, FALSE)

\* What the reference-counting sweep, run in the current state, does to the
\* entry under key k: TRUE when it evicts it.
SweepWouldEvict(k) ==
    RefSweepEvicts([cache[k] EXCEPT !.references = LiveRefs(cache[k].references)], now)

C34_GraceAfterLastAccess ==
    [][\A key \in RefKeys, ref \in Holders :
          (/\ ret' = Void
           /\ keyToString(key) \in DOMAIN cache
           /\ Idle(keyToString(key)) <= strategy.gracePeriod
           /\ removeReference(key, ref))
          => ~SweepWouldEvict(keyToString(key))']_vars

(***************************************************************************)
(* C35: registering a holder twice is the same as registering it once.     *)
(* After removeReference(k, h) the holder h does not count toward the live *)
(* references of the entry under k, however often it was registered, so    *)
(* that an entry no other holder references is evicted by a sweep once its *)
(* grace period has passed.                                                *)
(***************************************************************************)
C35_RemoveReferenceClearsHolder ==
    [][\A key \in RefKeys, ref \in Holders :
          (/\ ret' = Void
           /\ keyToString(key) \in DOMAIN cache
           /\ cache[keyToString(key)].references[ref] > 0
           /\ removeReference(key, ref))
          => LET k == keyToString(key)
             IN  /\ LiveRefs(cache'[k].references)[ref] = 0
                 /\ ((\A h \in Holders \ {ref} : LiveRefs(cache[k].references)[h] = 0)
                        /\ Idle(k) > strategy.gracePeriod)
                    => SweepWouldEvict(k)']_vars

\* The part of C35 that holds: a removeReference of a holder registered once
\* leaves no reference of that holder.
C35_RemoveReferenceClearsSingle ==
    [][\A key \in RefKeys, ref \in Holders :
          (/\ ret' = Void
           /\ keyToString(key) \in DOMAIN cache
           /\ cache[keyToString(key)].references[ref] = 1
           /\ removeReference(key, ref))
          => cache'[keyToString(key)].references[ref] = 0]_vars

(***************************************************************************)
(* C36: references belong to the entry, not to the key.  An addReference   *)
(* on a key without entry changes nothing, and every entry that get        *)
(* creates starts with an empty reference set, whatever was registered on  *)
(* an earlier entry of its key; an entry takes a reference only by an      *)
(* addReference made while it is in the table.                             *)
(***************************************************************************)
C36_ReferencesBelongToEntry ==
    [][/\ \A key \in RefKeys, ref \in Holders :
             (ret' = Void /\ keyToString(key) \notin DOMAIN cache /\ addReference(key, ref))
             => UNCHANGED <<store, now, alive>>
       /\ \A k \in DOMAIN cache' :
             IF k \in DOMAIN cache /\ cache[k].promise = cache'[k].promise
             THEN \A h \in Holders :
                     cache'[k].references[h] > cache[k].references[h]
                     => \E key \in RefKeys : keyToString(key) = k /\ addReference(key, h)
             ELSE cache'[k].references = NoRefs]_vars

\* Under reference-counting the first entry of a key was evicted by the
\* sweep while its computation was pending, and a get has just created the
\* second entry of that key, without references.
C36_Witness ==
    /\ strategy.type = "reference-counting"
    /\ Len(fetches) = 2
    /\ fetches[1].aborted /\ fetches[1].state = "pending"
    /\ fetches[2].key = fetches[1].key
    /\ ret = Returned("promise", 2, TRUE)
    /\ cache[fetches[2].key].references = NoRefs

\* The sweep, run in this step, evicts exactly the entries without live
\* reference whose last access is older than gracePeriod, pending or settled,
\* firing their signals and leaving their computations in the state they had.
SweepEvictsByRefsAndIdle ==
    SweepRuns
    => \A k \in DOMAIN cache, i \in DOMAIN fetches :
          cache[k].promise = i
          => IF RefsSize(LiveRefs(cache[k].references)) = 0 /\ Idle(k) > strategy.gracePeriod
             THEN /\ k \notin DOMAIN cache'
                  /\ fetches'[i].aborted
                  /\ fetches'[i].state = fetches[i].state
             ELSE Kept(k, i)

(***************************************************************************)
(* C37, as claimed: the sweep evicts by live references and last access    *)
(* alone, so that a pending entry without live reference and idle for      *)
(* longer than gracePeriod is cancelled and removed; and the promise of an *)
(* entry evicted while pending then rejects with the cancellation failure. *)
(***************************************************************************)
C37_SweptCallerGetsCancellation ==
    [][/\ SweepEvictsByRefsAndIdle
       /\ \A id \in DOMAIN fetches, err \in Errors \cup {NoError} :
             (/\ ret' = Void
              /\ strategy.type = "reference-counting"
              /\ fetches[id].aborted
              /\ settle(id, err))
             => err \in {AbortErrorDOM, AxiosCancel}]_vars

(***************************************************************************)
(* C37, amended: the sweep evicts by live references and last access       *)
(* alone, so that a pending entry without live reference and idle for      *)
(* longer than gracePeriod is cancelled and removed.  The store settles no *)
(* promise: the promise of the evicted entry stays pending until its       *)
(* computation settles, and whatever it settles with then (the             *)
(* cancellation failure if it honours the signal, a value or another       *)
(* error if it does not) leaves the table as it is.                        *)
(***************************************************************************)
C37_SweepIgnoresComputationState ==
    [][/\ SweepEvictsByRefsAndIdle
       /\ \A id \in DOMAIN fetches :
             (strategy.type = "reference-counting" /\ fetches[id].state # fetches'[id].state)
             => /\ fetches[id].state = "pending"
                /\ ret' = Void /\ now' = now /\ ~SweepRuns
                /\ (fetches[id].aborted /\ fetches'[id].state = "fulfilled") => cache' = cache]_vars

\* The sweep at time 2 evicted the only entry while its computation was
\* pending, and the computation has since succeeded.
C37_Witness ==
    /\ strategy.type = "reference-counting"
    /\ now = 2
    /\ accessCounter = 1
    /\ Len(fetches) = 1
    /\ fetches[1].aborted /\ fetches[1].state = "fulfilled"
    /\ DOMAIN cache = {}


(***************************************************************************)
(* C38: under TTL, a sweep removes and cancels exactly the entries with    *)
(* now - createdAt > ttl and leaves every other entry as it is; a get      *)
(* treats the entry of its key as expired under the same test (it returns  *)
(* the cached promise exactly when now - createdAt <= ttl); and neither a  *)
(* sweep nor a get removes, replaces or cancels an entry with              *)
(* now - createdAt <= ttl.                                                 *)
(***************************************************************************)
C38_TtlRemovesExactlyAged ==
    [][strategy.type = "ttl"
       => /\ (ret' = Void /\ now' = now /\ ttlSweep)
             => \A k \in DOMAIN cache :
                   IF Aged(k)
                   THEN /\ k \notin DOMAIN cache'
                        /\ fetches'[cache[k].promise].aborted
                   ELSE /\ k \in DOMAIN cache'
                        /\ cache'[k] = cache[k]
                        /\ fetches'[cache[k].promise].aborted = fetches[cache[k].promise].aborted
          /\ ret' # Void
             => /\ \A k \in DOMAIN cache :
                      ~Aged(k)
                      => /\ k \in DOMAIN cache'
                         /\ cache'[k].promise = cache[k].promise
                         /\ cache'[k].createdAt = cache[k].createdAt
                         /\ fetches'[cache[k].promise].aborted = fetches[cache[k].promise].aborted
                /\ \A key \in Keys, mode \in FetcherModes :
                      (keyToString(key) \in DOMAIN cache /\ get(key, mode))
                      => (Aged(keyToString(key))
                          <=> ret' # Returned("promise", cache[keyToString(key)].promise, FALSE))]_vars

\* A sweep at time 2 removed and cancelled the entry created at time 0 and
\* kept the entry created at time 1, whose age equals ttl, uncancelled.
C38_Witness ==
    /\ strategy.type = "ttl"
    /\ cleanupTimer
    /\ now = 2
    /\ ret = Void
    /\ Len(fetches) = 2
    /\ fetches[1].aborted /\ ~InTable(1)
    /\ ~fetches[2].aborted /\ InTable(2)
    /\ \A k \in DOMAIN cache : cache[k].createdAt = 1


(***************************************************************************)
(* C39: the Resource returned by getResource answers its first read() by   *)
(* the state of its computation: read() throws the suspender only if the   *)
(* computation is pending, returns the value if it has succeeded and       *)
(* throws the error if it has failed.                                      *)
(***************************************************************************)
C39_FirstReadOfSettledIsReady ==
    [][\A rid \in 1..MaxResources :
          (ret' # Void /\ ret'.kind = "resource" /\ ret'.id = rid)
          => (read(rid).kind = ReadOf(rid))']_vars


\* The suspender of Resource id: promise.then(onSuccess, onError), whose two
\* handlers assign the status and return normally, so that it fulfils when
\* the handler has run and is pending until then.
suspender(id) ==
    IF resources[id].status = "pending" THEN "pending" ELSE "fulfilled"

====
